---- MODULE Spec2Model ----
(***************************************************************************)
(* Model of the instance-management backend:                               *)
(*   backend/app/routes/instances.py      (Instance Registry)              *)
(*   backend/app/routes/sql_analyze.py    (SQL Execution Gateway)          *)
(*   backend/app/services/prometheus_service.py (Metrics Client)           *)
(*                                                                         *)
(* One HTTP request is in flight at a time: a handler action takes the     *)
(* request from bounded input sets, runs the whole handler and leaves the  *)
(* request, the response and the calls made to collaborators in `last`;    *)
(* Respond delivers the response and frees the slot.                       *)
(***************************************************************************)
EXTENDS Integers, Sequences, FiniteSets, TLC

VARIABLES
    instances,   \* rows of the Instance table (a set of records, keyed by id)
    nextId,      \* next surrogate id the table hands out
    last         \* the request in flight with its response, or Idle

vars == <<instances, nextId, last>>

(***************************************************************************)
(* Bounds of the model.                                                    *)
(***************************************************************************)
\* ids the Instance table may hand out
MaxId == 2
\* rows the target database may hold for one statement
MaxTableRows == 3

(***************************************************************************)
(* JSON / Python values.  A string is a sequence of one-character strings, *)
(* so that strip, split, lower and startswith are computed.  A float is    *)
(* kept in tenths (m = 655355 is 65535.5).                                 *)
(***************************************************************************)
Absent   == [t |-> "absent", n |-> 0, s |-> <<>>]
Null     == [t |-> "null",   n |-> 0, s |-> <<>>]
JInt(n)   == [t |-> "int",    n |-> n, s |-> <<>>]
JFloat(m) == [t |-> "float",  n |-> m, s |-> <<>>]
JStr(s)   == [t |-> "str",    n |-> 0, s |-> s]
NaN      == [t |-> "nan",    n |-> 0, s |-> <<>>]

\* Python truthiness of a value (`not data[field]`, `x or default`)
Truthy(v) ==
    CASE v.t = "int"   -> v.n # 0
      [] v.t = "float" -> v.n # 0
      [] v.t = "str"   -> v.s # <<>>
      [] v.t = "nan"   -> TRUE
      [] OTHER         -> FALSE

\* `key in data`
Has(v) == v.t # "absent"

\* `isinstance(v, str)`
IsStr(v) == v.t = "str"

\* `data.get(key) or default`
OrElse(v, d) == IF Truthy(v) THEN v ELSE d

\* `data.get(key, default)`
GetOr(v, d) == IF Has(v) THEN v ELSE d

IsSpace(c) == c \in {" ", "\t", "\n"}

RECURSIVE LStrip(_)
LStrip(s) == IF s # <<>> /\ IsSpace(Head(s)) THEN LStrip(Tail(s)) ELSE s

RECURSIVE RStrip(_)
RStrip(s) ==
    IF s # <<>> /\ IsSpace(s[Len(s)]) THEN RStrip(SubSeq(s, 1, Len(s) - 1)) ELSE s

\* str.strip()
Strip(s) == RStrip(LStrip(s))

Digits == {"0", "1", "2", "3", "4", "5", "6", "7", "8", "9"}

DigitVal(c) ==
    CASE c = "0" -> 0 [] c = "1" -> 1 [] c = "2" -> 2 [] c = "3" -> 3
      [] c = "4" -> 4 [] c = "5" -> 5 [] c = "6" -> 6 [] c = "7" -> 7
      [] c = "8" -> 8 [] c = "9" -> 9

RECURSIVE DecVal(_, _)
DecVal(s, acc) ==
    IF s = <<>> THEN acc ELSE DecVal(Tail(s), acc * 10 + DigitVal(Head(s)))

AllDigits(s) == s # <<>> /\ \A i \in 1..Len(s) : s[i] \in Digits

\* int(v): the integer, or the exception Python raises
PyInt(v) ==
    CASE v.t = "int"   -> [ok |-> TRUE, n |-> v.n, exc |-> "none"]
      [] v.t = "float" ->
            [ok |-> TRUE,
             n |-> IF v.n >= 0 THEN v.n \div 10 ELSE -((-v.n) \div 10),
             exc |-> "none"]
      [] v.t = "str"   ->
            LET b == Strip(v.s)
                neg == b # <<>> /\ Head(b) = "-"
                d == IF b # <<>> /\ Head(b) \in {"-", "+"} THEN Tail(b) ELSE b
            IN  IF AllDigits(d)
                THEN [ok |-> TRUE,
                      n |-> IF neg THEN -DecVal(d, 0) ELSE DecVal(d, 0),
                      exc |-> "none"]
                ELSE [ok |-> FALSE, n |-> 0, exc |-> "ValueError"]
      [] v.t = "nan"   -> [ok |-> FALSE, n |-> 0, exc |-> "ValueError"]
      [] OTHER         -> [ok |-> FALSE, n |-> 0, exc |-> "TypeError"]

(***************************************************************************)
(* Strings of the program and of the inputs.                               *)
(***************************************************************************)
MySQL      == <<"M", "y", "S", "Q", "L">>
PostgreSQL == <<"P", "o", "s", "t", "g", "r", "e", "S", "Q", "L">>
Oracle     == <<"O", "r", "a", "c", "l", "e">>
SQLServer  == <<"S", "Q", "L", " ", "S", "e", "r", "v", "e", "r">>
MongoDB    == <<"M", "o", "n", "g", "o", "D", "B">>
Running    == <<"r", "u", "n", "n", "i", "n", "g">>
Stopped    == <<"s", "t", "o", "p", "p", "e", "d">>

\* the fixed enumeration of database types
DbTypes == {MySQL, PostgreSQL, Oracle, SQLServer}

MinPort == 1
MaxPort == 65535
MaxNameLen == 100
DefaultPort == 3306

Idle == [op |-> "idle"]

NoRow == [id |-> 0]

EmptyStr == JStr(<<>>)

(***************************************************************************)
(* Instance Registry: backend/app/routes/instances.py                      *)
(***************************************************************************)
\* Instance.query, filtered by user_id when the request carries userId
Scoped(rows, user) ==
    IF user # Null THEN {r \in rows : r.user_id = user} ELSE rows

\* the lookup by id forgets the user filter
LookupAnyUser(rows, user, id) == {r \in rows : r.id = id}

\* q.filter_by(id=instance_id).first()
Lookup(rows, user, id) == {r \in Scoped(rows, user) : r.id = id}

\* mutant of NameTaken: the lookup forgets the user scope
NameTakenAnyUser(rows, user, name) ==
    \E r \in rows : r.instance_name = name

\* base_q.filter_by(instance_name=name).first()
NameTaken(rows, user, name) ==
    \E r \in Scoped(rows, user) : r.instance_name = name

\* the four required fields, in the order the loop visits them
RequiredFields == <<"name", "host", "port", "type">>

\* `not data`: a body with no key at all
EmptyBody(data) == \A f \in DOMAIN data : ~Has(data[f])

\* name checks shared by create and update
NameError(v) ==
    IF ~IsStr(v) \/ Len(Strip(v.s)) = 0 THEN "name_not_nonempty_string"
    ELSE IF Len(Strip(v.s)) > MaxNameLen THEN "name_too_long"
    ELSE "none"

HostError(v) ==
    IF ~IsStr(v) \/ Len(Strip(v.s)) = 0 THEN "host_not_nonempty_string" ELSE "none"

PortError(v) ==
    LET p == PyInt(v)
    IN  IF ~p.ok THEN "port_not_integer"
        ELSE IF p.n < MinPort \/ p.n > MaxPort THEN "port_out_of_range"
        ELSE "none"

DbTypeError(v) == IF IsStr(v) /\ v.s \in DbTypes THEN "none" ELSE "unsupported_type"

\* first required field that is missing or falsy, "none" when all are given
MissingField(data) ==
    LET bad == {i \in 1..Len(RequiredFields) :
                   ~Has(data[RequiredFields[i]]) \/ ~Truthy(data[RequiredFields[i]])}
    IN  IF bad = {} THEN "none"
        ELSE RequiredFields[CHOOSE i \in bad : \A j \in bad : i <= j]

\* first failing field check of create_instance, "none" when the body passes
CreateFieldError(data) ==
    IF EmptyBody(data) THEN "empty_body"
    ELSE IF MissingField(data) # "none" THEN "missing_field"
    ELSE IF NameError(data.name) # "none" THEN NameError(data.name)
    ELSE IF HostError(data.host) # "none" THEN HostError(data.host)
    ELSE IF PortError(data.port) # "none" THEN PortError(data.port)
    ELSE DbTypeError(data.type)

\* arguments create_instance hands to db_validator.validate_connection
CreateProbe(data) ==
    [db_type |-> data.type, host |-> data.host,
     port |-> IF Has(data.port) THEN PyInt(data.port).n ELSE DefaultPort,
     username |-> OrElse(data.username, EmptyStr),
     password |-> OrElse(data.password, EmptyStr)]

\* the row create_instance builds
NewRow(id, user, data) ==
    [id |-> id,
     instance_name |-> data.name,
     host |-> data.host,
     port |-> IF Has(data.port) THEN PyInt(data.port).n ELSE DefaultPort,
     username |-> GetOr(data.username, EmptyStr),
     password |-> GetOr(data.password, EmptyStr),
     db_type |-> data.type,
     status |-> GetOr(data.status, JStr(Running)),
     user_id |-> user]

\* mutant of CreateError: the verdict of the validator is not looked at
CreateErrorVerdictIgnored(rows, user, data, ok) ==
    IF CreateFieldError(data) # "none" THEN CreateFieldError(data)
    ELSE IF NameTaken(rows, user, data.name) THEN "name_exists"
    ELSE "none"

\* first check of create_instance that fails, "none" when the row is
\* inserted; ok is the verdict of the connection validator
CreateError(rows, user, data, ok) ==
    IF CreateFieldError(data) # "none" THEN CreateFieldError(data)
    ELSE IF NameTaken(rows, user, data.name) THEN "name_exists"
    ELSE IF ~ok THEN "probe_failed"
    ELSE "none"

\* whether create_instance reaches the connection validator
CreateProbes(rows, user, data) ==
    CreateFieldError(data) = "none" /\ ~NameTaken(rows, user, data.name)

\* the validator calls of one request: the arguments and the verdict
ProbeLog(reached, args, ok) ==
    IF reached THEN <<[args |-> args, ok |-> ok]>> ELSE <<>>

\* POST /instances: the whole handler; ok is the validator's verdict
CreateInstance(user, data, ok) ==
    /\ last = Idle
    /\ LET err == CreateError(instances, user, data, ok)
           probes == IF CreateProbes(instances, user, data)
                     THEN ProbeLog(TRUE, CreateProbe(data), ok) ELSE <<>>
           reply(status, row) ==
               [op |-> "create", user |-> user, data |-> data, id |-> 0,
                status |-> status, err |-> err, probes |-> probes, out |-> row]
       IN  IF err # "none"
           THEN /\ last' = reply(400, NoRow)
                /\ UNCHANGED <<instances, nextId>>
           ELSE /\ nextId <= MaxId
                /\ instances' = instances \cup {NewRow(nextId, user, data)}
                /\ nextId' = nextId + 1
                /\ last' = reply(201, NewRow(nextId, user, data))

\* first failing field check of update_instance: only the fields present
UpdateFieldError(data) ==
    IF EmptyBody(data) THEN "empty_body"
    ELSE IF Has(data.name) /\ NameError(data.name) # "none" THEN NameError(data.name)
    ELSE IF Has(data.host) /\ HostError(data.host) # "none" THEN HostError(data.host)
    ELSE IF Has(data.port) /\ PortError(data.port) # "none" THEN PortError(data.port)
    ELSE IF Has(data.type) THEN DbTypeError(data.type)
    ELSE "none"

\* the connection fields whose presence triggers the probe
ConnFields == {"host", "port", "username", "password", "type"}

\* will_check = any(k in data for k in [...])
WillCheck(data) == \E f \in ConnFields : Has(data[f])

\* mutant of UpdateProbe: the stored row is probed, not the merged view
UpdateProbeStoredRow(inst, data) ==
    [db_type |-> inst.db_type, host |-> inst.host, port |-> inst.port,
     username |-> OrElse(inst.username, EmptyStr),
     password |-> OrElse(inst.password, EmptyStr)]

\* arguments update_instance hands to db_validator.validate_connection
UpdateProbe(inst, data) ==
    [db_type |-> GetOr(data.type, inst.db_type),
     host |-> GetOr(data.host, inst.host),
     port |-> IF Has(data.port) THEN PyInt(data.port).n ELSE inst.port,
     username |-> GetOr(data.username, OrElse(inst.username, EmptyStr)),
     password |-> GetOr(data.password, OrElse(inst.password, EmptyStr))]

\* the row after update_instance assigned the fields present
Patched(inst, data) ==
    [id |-> inst.id,
     instance_name |-> GetOr(data.name, inst.instance_name),
     host |-> GetOr(data.host, inst.host),
     port |-> IF Has(data.port) THEN PyInt(data.port).n ELSE inst.port,
     username |-> GetOr(data.username, inst.username),
     password |-> GetOr(data.password, inst.password),
     db_type |-> GetOr(data.type, inst.db_type),
     status |-> GetOr(data.status, inst.status),
     user_id |-> inst.user_id]

\* the uniqueness check of update_instance: skipped for the row's own name
RenameClash(rows, user, inst, data) ==
    /\ Has(data.name)
    /\ data.name # inst.instance_name
    /\ NameTaken(rows, user, data.name)

\* first check of update_instance that fails once the row is found, "none"
\* when the row is changed; ok is the verdict of the connection validator
UpdateError(rows, user, inst, data, ok) ==
    IF UpdateFieldError(data) # "none" THEN UpdateFieldError(data)
    ELSE IF RenameClash(rows, user, inst, data) THEN "name_exists"
    ELSE IF WillCheck(data) /\ ~ok THEN "probe_failed"
    ELSE "none"

\* whether update_instance reaches the connection validator
UpdateProbes(rows, user, id, data) ==
    /\ Lookup(rows, user, id) # {}
    /\ UpdateFieldError(data) = "none"
    /\ LET inst == CHOOSE r \in Lookup(rows, user, id) : TRUE
       IN  ~RenameClash(rows, user, inst, data)
    /\ WillCheck(data)

\* PUT /instances/<id>: the whole handler; ok is the validator's verdict
UpdateInstance(user, id, data, ok) ==
    /\ last = Idle
    /\ LET found == Lookup(instances, user, id)
           reply(status, err, probes, row) ==
               [op |-> "update", user |-> user, data |-> data, id |-> id,
                status |-> status, err |-> err, probes |-> probes, out |-> row]
       IN  IF found = {}
           THEN /\ last' = reply(404, "not_found", <<>>, NoRow)
                /\ UNCHANGED <<instances, nextId>>
           ELSE LET inst == CHOOSE r \in found : TRUE
                    err == UpdateError(instances, user, inst, data, ok)
                    probes == IF UpdateProbes(instances, user, id, data)
                              THEN ProbeLog(TRUE, UpdateProbe(inst, data), ok)
                              ELSE <<>>
                IN  IF err # "none"
                    THEN /\ last' = reply(400, err, probes, NoRow)
                         /\ UNCHANGED <<instances, nextId>>
                    ELSE /\ instances' =
                                (instances \ {inst}) \cup {Patched(inst, data)}
                         /\ last' = reply(200, "none", probes, Patched(inst, data))
                         /\ UNCHANGED nextId

\* DELETE /instances/<id>
DeleteInstance(user, id) ==
    /\ last = Idle
    /\ LET found == Lookup(instances, user, id)
           reply(status, err) ==
               [op |-> "delete", user |-> user, id |-> id,
                status |-> status, err |-> err]
       IN  IF found = {}
           THEN /\ last' = reply(404, "not_found")
                /\ UNCHANGED <<instances, nextId>>
           ELSE /\ instances' = instances \ found
                /\ last' = reply(200, "none")
                /\ UNCHANGED nextId

\* GET /instances/<id>
GetInstance(user, id) ==
    /\ last = Idle
    /\ LET found == Lookup(instances, user, id)
       IN  last' = [op |-> "get", user |-> user, id |-> id,
                    status |-> IF found = {} THEN 404 ELSE 200,
                    err |-> IF found = {} THEN "not_found" ELSE "none",
                    out |-> IF found = {} THEN NoRow
                            ELSE CHOOSE r \in found : TRUE]
    /\ UNCHANGED <<instances, nextId>>

\* GET /instances
ListInstances(user) ==
    /\ last = Idle
    /\ last' = [op |-> "list", user |-> user, status |-> 200,
                err |-> "none", out |-> Scoped(instances, user)]
    /\ UNCHANGED <<instances, nextId>>

\* the response leaves; the next request may arrive
Respond ==
    /\ last # Idle
    /\ last' = Idle
    /\ UNCHANGED <<instances, nextId>>

(***************************************************************************)
(* Bounded inputs of the registry endpoints.                               *)
(***************************************************************************)
U1 == JStr(<<"u", "1">>)
U2 == JStr(<<"u", "2">>)

\* request.args.get('userId'): None when the parameter is not given
Users == {Null, U1, U2}

NameA == JStr(<<"a">>)
NameB == JStr(<<"b">>)
HostH == JStr(<<"h">>)
HostG == JStr(<<"g">>)

\* a name of 101 characters
LongName == JStr([i \in 1..(MaxNameLen + 1) |-> "x"])

GoodNames == {NameA, NameB}
BadNames  == {Absent, EmptyStr, JStr(<<" ">>), JInt(5), LongName}

GoodHosts == {HostH}
BadHosts  == {Absent, JStr(<<" ">>), JInt(7)}

\* ports create_instance and update_instance accept: 65535, "65535", 65535.5
AcceptedPorts == {JInt(MaxPort), JStr(<<"6", "5", "5", "3", "5">>),
                  JFloat(MaxPort * 10 + 5)}
\* ports they reject: missing, null, 0, -1, 65536, 0.5, 65536.0, "abc", "70000"
RejectedPorts == {Absent, Null, JInt(0), JInt(-1), JInt(MaxPort + 1), JFloat(5),
                  JFloat((MaxPort + 1) * 10), JStr(<<"a", "b", "c">>),
                  JStr(<<"7", "0", "0", "0", "0">>)}

GoodTypes == {JStr(MySQL), JStr(Oracle)}
BadTypes  == {Absent, JStr(MongoDB), JStr(<<"m", "y", "s", "q", "l">>), JInt(1)}

Body(name, host, port, type, username, password, status) ==
    [name |-> name, host |-> host, port |-> port, type |-> type,
     username |-> username, password |-> password, status |-> status]

NoBody == Body(Absent, Absent, Absent, Absent, Absent, Absent, Absent)

\* bodies of POST /instances: every port with a good and a bad type, every
\* type with a good port, every name with every host, and the empty body
CreateBodies ==
    {Body(n, HostH, p, t, Absent, Absent, Absent) :
        n \in GoodNames, p \in AcceptedPorts \cup RejectedPorts,
        t \in {JStr(MySQL), JStr(MongoDB)}}
    \cup
    {Body(n, HostH, JInt(MaxPort), t, Absent, Absent, Absent) :
        n \in GoodNames, t \in GoodTypes \cup BadTypes}
    \cup
    {Body(n, h, JInt(MaxPort), JStr(MySQL), Absent, Absent, Absent) :
        n \in GoodNames \cup BadNames, h \in GoodHosts \cup BadHosts}
    \cup {NoBody}

\* bodies of PUT /instances/<id>: renames with and without a type, a port or
\* a type alone, a name that is too long, and the empty body
UpdateBodies ==
    {Body(n, Absent, Absent, t, Absent, Absent, Absent) :
        n \in GoodNames, t \in {Absent, JStr(Oracle), JStr(MongoDB)}}
    \cup
    {Body(Absent, Absent, p, Absent, Absent, Absent, Absent) :
        p \in {JInt(MaxPort), JInt(0)}}
    \cup
    {Body(Absent, Absent, Absent, JStr(MySQL), Absent, Absent, Absent),
     Body(LongName, Absent, Absent, Absent, Absent, Absent, Absent),
     NoBody}

\* ids a path may carry: those handed out, and one never handed out
PathIds == 1..(MaxId + 1)

(***************************************************************************)
(* The registry, one request at a time.                                    *)
(***************************************************************************)
Init ==
    /\ instances = {}
    /\ nextId = 1
    /\ last = Idle

Create ==
    /\ last = Idle
    /\ \E user \in Users, data \in CreateBodies :
        \E ok \in (IF CreateProbes(instances, user, data) THEN BOOLEAN ELSE {FALSE}) :
            CreateInstance(user, data, ok)

Update ==
    /\ last = Idle
    /\ \E user \in Users, id \in PathIds, data \in UpdateBodies :
        \E ok \in (IF UpdateProbes(instances, user, id, data)
                   THEN BOOLEAN ELSE {FALSE}) :
            UpdateInstance(user, id, data, ok)

Delete == last = Idle /\ \E user \in Users, id \in PathIds : DeleteInstance(user, id)

Get == last = Idle /\ \E user \in Users, id \in PathIds : GetInstance(user, id)

List == last = Idle /\ \E user \in Users : ListInstances(user)

Next == Create \/ Update \/ Delete \/ Get \/ List \/ Respond

Spec == Init /\ [][Next]_vars

(***************************************************************************)
(* Claims about the registry.                                              *)
(***************************************************************************)
\* the step is a handled request of the given endpoint
Handled(op) == last = Idle /\ last' # Idle /\ last'.op = op

\* C1 (first part): no two stored rows with the same owning user id share a
\* name.
NamesUniquePerUser ==
    \A r1, r2 \in instances :
        (r1.id # r2.id /\ r1.user_id = r2.user_id)
            => r1.instance_name # r2.instance_name

\* C1 (second part): a create whose name is stored under the request's user
\* id is answered 400 and changes no row.
DuplicateCreateRejected ==
    (/\ Handled("create")
     /\ \E r \in instances :
            r.user_id = last'.user /\ r.instance_name = last'.data.name)
        => (last'.status = 400 /\ instances' = instances /\ nextId' = nextId)

\* C1 (third part): a create that carries a user id, passes the field checks
\* and whose name is stored only under other user ids is not refused for its
\* name: the validator is asked, and the row is inserted when it agrees.
OtherUsersNameAccepted ==
    (/\ Handled("create")
     /\ last'.user # Null
     /\ CreateFieldError(last'.data) = "none"
     /\ \E r \in instances : r.instance_name = last'.data.name
     /\ \A r \in instances :
            r.instance_name = last'.data.name => r.user_id # last'.user)
        => /\ last'.err # "name_exists"
           /\ Len(last'.probes) = 1
           /\ last'.probes[1].ok
                => (/\ last'.status = 201
                    /\ \E r \in instances' \ instances :
                           /\ r.user_id = last'.user
                           /\ r.instance_name = last'.data.name)

\* C1: name uniqueness holds per user scope after any sequence of create,
\* update and delete requests: a create whose name exists under the same
\* user id is rejected with 400 and persists nothing, a create (carrying a
\* user id) whose name exists only under a different user id succeeds, and
\* no two stored rows of one owning user id share a name.
C1_NameUniquePerUser ==
    /\ []NamesUniquePerUser
    /\ [][DuplicateCreateRejected /\ OtherUsersNameAccepted]_vars

\* C1 witness: two rows of different users share a name, and a create of
\* that name under one of these users has just been refused.
C1_Witness ==
    /\ last # Idle
    /\ last.op = "create"
    /\ last.err = "name_exists"
    /\ last.user # Null
    /\ \E r1, r2 \in instances :
           /\ r1.user_id = last.user
           /\ r2.user_id # last.user
           /\ r1.instance_name = last.data.name
           /\ r2.instance_name = last.data.name

\* what the claim calls a port outside [1,65535]: a number below 1 or above
\* 65535, whatever its JSON spelling
PortOutsideRange(v) ==
    CASE v.t = "int"   -> v.n < MinPort \/ v.n > MaxPort
      [] v.t = "float" -> v.n < MinPort * 10 \/ v.n > MaxPort * 10
      [] v.t = "str"   -> PyInt(v).ok /\ (PyInt(v).n < MinPort \/ PyInt(v).n > MaxPort)
      [] OTHER         -> FALSE

\* what the claim calls a type outside the enumeration
TypeOutsideEnum(v) == Has(v) /\ ~(IsStr(v) /\ v.s \in DbTypes)

\* C2 (as claimed): every create whose port is outside [1,65535] or whose
\* type is outside the enumeration is answered 400, without a call of the
\* connection validator and without a change of the stored rows.
C2_InvalidCreateRejected ==
    [][(/\ Handled("create")
        /\ PortOutsideRange(last'.data.port) \/ TypeOutsideEnum(last'.data.type))
          => (/\ last'.status = 400
              /\ last'.probes = <<>>
              /\ instances' = instances)]_vars

\* C3 (first part): a create that passes the field checks and the
\* uniqueness check asks the validator once; on a refusal the answer is 400
\* and no row is added, on success it is 201 with the new row, which is
\* stored.
PersistedIffProbeOk ==
    (/\ Handled("create")
     /\ CreateFieldError(last'.data) = "none"
     /\ ~\E r \in Scoped(instances, last'.user) :
            r.instance_name = last'.data.name)
        => /\ Len(last'.probes) = 1
           /\ IF last'.probes[1].ok
              THEN /\ last'.status = 201
                   /\ last'.out \notin instances
                   /\ \A r \in instances : r.id # last'.out.id
                   /\ instances' = instances \cup {last'.out}
                   /\ last'.out.user_id = last'.user
                   /\ last'.out.instance_name = last'.data.name
              ELSE /\ last'.status = 400
                   /\ instances' = instances

\* C3 (second part): a stored row stays stored, under its id and its owner,
\* until a delete of that id succeeds.
StoredUntilDeleted ==
    \A r \in instances :
        \/ \E q \in instances' : q.id = r.id /\ q.user_id = r.user_id
        \/ /\ Handled("delete")
           /\ last'.id = r.id
           /\ last'.status = 200

\* C3 (third part): a list for a user scope carries every stored row of that
\* scope, and the unscoped list every row.
ListShowsScope ==
    Handled("list")
        => /\ last'.status = 200
           /\ \A r \in instances :
                  (last'.user = Null \/ r.user_id = last'.user) => r \in last'.out
           /\ last'.out \subseteq instances

\* C3: a create that passes field validation and the uniqueness check is
\* persisted if and only if the connection validator reports success (400
\* and no row otherwise, 201 with the new row on success), and the row
\* appears in every later list for its user scope until it is deleted.
C3_PersistedIffValidatorOk ==
    [][PersistedIffProbeOk /\ StoredUntilDeleted /\ ListShowsScope]_vars

\* C3 witness: a list shows a row that an earlier create stored after the
\* validator agreed, while a second create has been handled since.
C3_Witness ==
    /\ last # Idle
    /\ last.op = "list"
    /\ last.user # Null
    /\ \E r \in last.out : r.user_id = last.user /\ r.id = 1
    /\ nextId > 2

(***************************************************************************)
(* Partial updates: one PUT against a stored table.  The tables are ones   *)
(* the registry reaches (two creates, the first with username "", null or  *)
(* "root"); the bodies carry every subset of the seven fields.             *)
(***************************************************************************)
NameC == JStr(<<"c">>)
Root  == JStr(<<"r", "o", "o", "t">>)
Pw    == JStr(<<"p", "w">>)

UpdRow1(username) ==
    [id |-> 1, instance_name |-> NameA, host |-> HostH, port |-> MaxPort,
     username |-> username, password |-> EmptyStr, db_type |-> JStr(MySQL),
     status |-> JStr(Running), user_id |-> U1]

UpdRow2 ==
    [id |-> 2, instance_name |-> NameB, host |-> HostG, port |-> DefaultPort,
     username |-> Root, password |-> Pw, db_type |-> JStr(Oracle),
     status |-> JStr(Stopped), user_id |-> U1]

UpdTables == {{UpdRow1(u), UpdRow2} : u \in {EmptyStr, Null, Root}}

RichUpdateBodies ==
    {Body(n, h, p, t, u, w, st) :
        n \in {Absent, NameA, NameB, NameC},
        h \in {Absent, HostG},
        p \in {Absent, JInt(MinPort), JStr(<<"3", "3", "0", "6">>)},
        t \in {Absent, JStr(Oracle)},
        u \in {Absent, Null, Root},
        w \in {Absent, Pw},
        st \in {Absent, JStr(Stopped)}}
    \cup
    {Body(NameC, h, p, t, Absent, Absent, JStr(Stopped)) :
        h \in {Absent, HostG, JStr(<<" ">>)},
        p \in {Absent, JInt(0), JInt(MaxPort + 1)},
        t \in {Absent, JStr(MongoDB)}}

InitUpd ==
    /\ instances \in UpdTables
    /\ nextId = 3
    /\ last = Idle

UpdateRich ==
    /\ last = Idle
    /\ \E user \in Users, id \in 1..3, data \in RichUpdateBodies :
        \E ok \in (IF UpdateProbes(instances, user, id, data)
                   THEN BOOLEAN ELSE {FALSE}) :
            UpdateInstance(user, id, data, ok)

NextUpd == UpdateRich

SpecUpd == InitUpd /\ [][NextUpd]_vars

\* the row an update addresses, as stored before the request
RowBefore == CHOOSE r \in instances : r.id = last'.id

\* the merged view of the claim: the request's value for a field that is
\* present (a port as the integer it denotes), the stored value otherwise (a
\* stored null credential as the empty string)
IsMergedView(a, inst, data) ==
    /\ a.db_type = (IF Has(data.type) THEN data.type ELSE inst.db_type)
    /\ a.host = (IF Has(data.host) THEN data.host ELSE inst.host)
    /\ Has(data.port) => (PyInt(data.port).ok /\ a.port = PyInt(data.port).n)
    /\ ~Has(data.port) => a.port = inst.port
    /\ Has(data.username) => a.username = data.username
    /\ ~Has(data.username) =>
           a.username = (IF inst.username = Null THEN EmptyStr ELSE inst.username)
    /\ Has(data.password) => a.password = data.password
    /\ ~Has(data.password) =>
           a.password = (IF inst.password = Null THEN EmptyStr ELSE inst.password)

\* C10 (first part): an update that carries a connection field and commits
\* has asked the validator, with the merged view, and got its agreement.
ProbedBeforeCommit ==
    (/\ Handled("update")
     /\ \E f \in ConnFields : Has(last'.data[f])
     /\ last'.status = 200 \/ instances' # instances)
        => /\ Len(last'.probes) = 1
           /\ last'.probes[1].ok
           /\ IsMergedView(last'.probes[1].args, RowBefore, last'.data)

\* C10 (second part): every call of the validator by an update carries the
\* merged view, and a refusal is answered 400 with no stored field changed.
RefusalChangesNothing ==
    (Handled("update") /\ Len(last'.probes) > 0)
        => /\ Len(last'.probes) = 1
           /\ IsMergedView(last'.probes[1].args, RowBefore, last'.data)
           /\ ~last'.probes[1].ok => (last'.status = 400 /\ instances' = instances)

\* C10: when an update carries a connection field (host, port, username,
\* password, type) the validator is invoked before the commit with the
\* merged view, and when it refuses, the answer is 400 and no field of the
\* stored row, name and status included, is changed.
C10_UpdateProbedOnMergedView ==
    [][ProbedBeforeCommit /\ RefusalChangesNothing]_vars

\* C10 witness: an update that sends a new name, a new status and a new host
\* but no port has been refused by the validator; row 1 still holds its old
\* name, status and host.
C10_Witness ==
    /\ last # Idle
    /\ last.op = "update"
    /\ last.id = 1
    /\ last.err = "probe_failed"
    /\ last.data.name = NameC
    /\ last.data.status = JStr(Stopped)
    /\ last.data.host = HostG
    /\ ~Has(last.data.port)
    /\ last.probes[1].args.host = HostG
    /\ last.probes[1].args.port = MaxPort
    /\ \E r \in instances :
           /\ r.id = 1
           /\ r.instance_name = NameA
           /\ r.status = JStr(Running)
           /\ r.host = HostH
           /\ r.username = Null

(***************************************************************************)
(* SQL Execution Gateway: backend/app/routes/sql_analyze.py execute_sql    *)
(***************************************************************************)
DefaultMaxRows == 1000

Upper == <<"A", "B", "C", "D", "E", "F", "G", "H", "I", "J", "K", "L", "M",
           "N", "O", "P", "Q", "R", "S", "T", "U", "V", "W", "X", "Y", "Z">>
Lowers == <<"a", "b", "c", "d", "e", "f", "g", "h", "i", "j", "k", "l", "m",
           "n", "o", "p", "q", "r", "s", "t", "u", "v", "w", "x", "y", "z">>

LowerChar(c) ==
    IF \E i \in 1..Len(Upper) : Upper[i] = c
    THEN Lowers[CHOOSE i \in 1..Len(Upper) : Upper[i] = c]
    ELSE c

\* str.lower()
Lower(s) == [i \in 1..Len(s) |-> LowerChar(s[i])]

\* str.startswith(prefix)
StartsWith(s, prefix) ==
    Len(s) >= Len(prefix) /\ SubSeq(s, 1, Len(prefix)) = prefix

\* str.split(sep) for a one-character separator: the fragments, empty ones
\* included
RECURSIVE SplitAcc(_, _, _)
SplitAcc(s, sep, cur) ==
    IF s = <<>> THEN <<cur>>
    ELSE IF Head(s) = sep THEN <<cur>> \o SplitAcc(Tail(s), sep, <<>>)
    ELSE SplitAcc(Tail(s), sep, Append(cur, Head(s)))

Split(s, sep) == SplitAcc(s, sep, <<>>)

\* [s.strip() for s in sql.split(';') if s.strip()]
RECURSIVE StripNonEmpty(_)
StripNonEmpty(parts) ==
    IF parts = <<>> THEN <<>>
    ELSE IF Strip(Head(parts)) = <<>> THEN StripNonEmpty(Tail(parts))
    ELSE <<Strip(Head(parts))>> \o StripNonEmpty(Tail(parts))

Statements(sql) == StripNonEmpty(Split(sql, ";"))

QueryPrefixes ==
    {<<"s", "e", "l", "e", "c", "t">>, <<"s", "h", "o", "w">>,
     <<"d", "e", "s", "c">>, <<"d", "e", "s", "c", "r", "i", "b", "e">>,
     <<"e", "x", "p", "l", "a", "i", "n">>}

\* the statement is compared as it was typed, not lowercased
IsQueryCaseSensitive(sql) == \E p \in QueryPrefixes : StartsWith(LStrip(sql), p)

\* is_query: the lowercased, left-trimmed statement starts with a prefix
IsQuery(sql) == \E p \in QueryPrefixes : StartsWith(LStrip(Lower(sql)), p)

\* (data.get(key) or '').strip(): the string, or the AttributeError a
\* truthy non-string raises
StrippedOrEmpty(v) ==
    IF ~Truthy(v) THEN [ok |-> TRUE, s |-> <<>>]
    ELSE IF IsStr(v) THEN [ok |-> TRUE, s |-> Strip(v.s)]
    ELSE [ok |-> FALSE, s |-> <<>>]

\* the four conversions at the head of execute_sql: the first exception they
\* raise, or "none"
ExecParseError(data) ==
    IF ~PyInt(OrElse(data.instanceId, JInt(0))).ok THEN "instanceId_conversion"
    ELSE IF ~StrippedOrEmpty(data.sql).ok THEN "sql_not_string"
    ELSE IF ~StrippedOrEmpty(data.database).ok THEN "database_not_string"
    ELSE IF ~PyInt(OrElse(data.maxRows, JInt(DefaultMaxRows))).ok
         THEN "maxRows_conversion"
    ELSE "none"

\* instance_id = int(data.get('instanceId') or 0)
ExecInstanceId(data) == PyInt(OrElse(data.instanceId, JInt(0))).n

\* max_rows = int(data.get('maxRows') or 1000)
ExecMaxRows(data) == PyInt(OrElse(data.maxRows, JInt(DefaultMaxRows))).n

\* the checks before the instance lookup: the first that fails, or "none"
ExecCheckError(data) ==
    IF ExecInstanceId(data) = 0 \/ StrippedOrEmpty(data.sql).s = <<>>
    THEN "missing_instanceId_or_sql"
    ELSE IF StrippedOrEmpty(data.database).s = <<>> THEN "missing_database"
    ELSE IF Len(Statements(StrippedOrEmpty(data.sql).s)) # 1 THEN "multi_statement"
    ELSE "none"

\* cursor.fetchmany(size) of the driver on a result of n rows: the first
\* size rows; a negative size slices rows[0:size]
FetchMany(n, size) ==
    IF size >= 0 THEN (IF n < size THEN n ELSE size)
    ELSE (IF n + size > 0 THEN n + size ELSE 0)

\* outcomes of the driver for one request
DriverOutcomes ==
    {"ok", "connect_raises", "execute_raises", "fetch_raises", "commit_raises"}

\* the connection is closed only when the statement went through
ExecDriverCallsCloseOnSuccess(isQuery, drv) ==
    IF drv = "connect_raises" THEN <<"connect">>
    ELSE IF drv = "execute_raises" THEN <<"connect", "execute">>
    ELSE IF isQuery
    THEN IF drv = "fetch_raises" THEN <<"connect", "execute", "fetchmany">>
         ELSE <<"connect", "execute", "fetchmany", "close">>
    ELSE IF drv = "commit_raises" THEN <<"connect", "execute", "rowcount", "commit">>
         ELSE <<"connect", "execute", "rowcount", "commit", "close">>

\* the driver calls of execute_sql from pymysql.connect on, in order: the
\* try block stops at the call that raises, the finally clause closes every
\* connection that was opened
ExecDriverCalls(isQuery, drv) ==
    IF drv = "connect_raises" THEN <<"connect">>
    ELSE IF drv = "execute_raises" THEN <<"connect", "execute", "close">>
    ELSE IF isQuery THEN <<"connect", "execute", "fetchmany", "close">>
    ELSE <<"connect", "execute", "rowcount", "commit", "close">>

\* whether a driver call of the request raised
ExecDriverRaises(isQuery, drv) ==
    \/ drv \in {"connect_raises", "execute_raises"}
    \/ isQuery /\ drv = "fetch_raises"
    \/ ~isQuery /\ drv = "commit_raises"

\* the response of execute_sql and the calls it made; drv is the driver's
\* behaviour, n the rows the statement yields (or touches)
ExecReply(rows, user, data, drv, n) ==
    LET reply(status, err, calls, sqlType, executed, rowCount, limitedTo, affected) ==
            [op |-> "execute", user |-> user, data |-> data, drv |-> drv,
             status |-> status, err |-> err, calls |-> calls, sqlType |-> sqlType,
             executed |-> executed, rowCount |-> rowCount,
             limitedTo |-> limitedTo, affectedRows |-> affected]
        fail(status, err, calls) == reply(status, err, calls, "none", <<>>, 0, 0, 0)
    IN  IF ExecParseError(data) # "none"
        THEN fail(500, ExecParseError(data), <<>>)
        ELSE IF ExecCheckError(data) # "none"
        THEN fail(400, ExecCheckError(data), <<>>)
        ELSE
        LET sql == Statements(StrippedOrEmpty(data.sql).s)[1]
            found == Lookup(rows, user, ExecInstanceId(data))
            max_rows == ExecMaxRows(data)
            calls == <<"lookup">> \o ExecDriverCalls(IsQuery(sql), drv)
        IN  IF found = {} THEN fail(404, "not_found", <<"lookup">>)
            ELSE IF ~(LET inst == CHOOSE r \in found : TRUE
                      IN  Strip(OrElse(inst.db_type, EmptyStr).s) = MySQL)
            THEN fail(400, "mysql_only", <<"lookup">>)
            ELSE IF ExecDriverRaises(IsQuery(sql), drv)
            THEN fail(500, "driver_error", calls)
            ELSE IF IsQuery(sql)
            THEN reply(200, "none", calls, "query", sql,
                       FetchMany(n, max_rows), max_rows, 0)
            ELSE reply(200, "none", calls, "non_query", sql, 0, 0, n)

\* POST /sql/execute: the whole handler
ExecuteSql(user, data, drv, n) ==
    /\ last = Idle
    /\ last' = ExecReply(instances, user, data, drv, n)
    /\ UNCHANGED <<instances, nextId>>

(***************************************************************************)
(* Bounded inputs of the gateway.                                          *)
(***************************************************************************)
SqlSelect1 == <<"S", "E", "L", "E", "C", "T", " ", "1">>
SqlTwo == <<"S", "E", "L", "E", "C", "T", " ", "1", ";", " ", "S", "E", "L", "E", "C", "T", " ", "2">>
SqlTrailing == <<"S", "E", "L", "E", "C", "T", " ", "1", ";">>
SqlOnlySemi == <<";">>
SqlBlank == <<" ">>
SqlShow == <<" ", " ", "s", "h", "o", "w", " ", "t", "a", "b", "l", "e", "s">>
SqlExplain == <<"E", "X", "P", "L", "A", "I", "N", " ", "S", "E", "L", "E", "C", "T", " ", "1">>
SqlUpdate == <<"U", "P", "D", "A", "T", "E", " ", "t", " ", "S", "E", "T", " ", "x", "=", "1">>
SqlDesc == <<"d", "e", "s", "c", " ", "t">>
SqlUpdateTwo == <<"U", "P", "D", "A", "T", "E", " ", "t", " ", "S", "E", "T", " ", "x", "=", "1", ";", ";", "D", "E", "L", "E", "T", "E", " ", "F", "R", "O", "M", " ", "t">>
SqlPadded == <<";", " ", "s", "e", "l", "e", "c", "t", " ", "1", " ", ";">>
SqlDescribe == <<"D", "e", "s", "c", "r", "i", "b", "e", " ", "t">>
SqlInsert == <<"i", "n", "s", "e", "r", "t", " ", "t", " ", "s", "e", "l", "e", "c", "t", " ", "1">>

Sqls == {SqlSelect1, SqlTwo, SqlTrailing, SqlOnlySemi, SqlBlank, SqlShow,
         SqlExplain, SqlUpdate, SqlDesc, SqlUpdateTwo, SqlPadded, SqlDescribe,
         SqlInsert}

DbD == JStr(<<"d">>)

ExecBody(instanceId, sql, database, maxRows) ==
    [instanceId |-> instanceId, sql |-> sql, database |-> database,
     maxRows |-> maxRows]

\* instanceId: missing, null, 0, 1, 2, an id never handed out, -1, "1",
\* "abc", 1.5
ExecInstanceIds ==
    {Absent, Null, JInt(0), JInt(1), JInt(2), JInt(3), JInt(-1),
     JStr(<<"1">>), JStr(<<"a", "b", "c">>), JFloat(15)}

\* maxRows: missing, null, 0, 2, 1000, -1, "2", "abc", 2.0
ExecMaxRowsValues ==
    {Absent, Null, JInt(0), JInt(2), JInt(DefaultMaxRows), JInt(-1),
     JStr(<<"2">>), JStr(<<"a", "b", "c">>), JFloat(20)}

ExecBodies ==
    {ExecBody(i, q, d, m) :
        i \in ExecInstanceIds,
        q \in {JStr(x) : x \in Sqls} \cup {Absent, EmptyStr, JInt(5)},
        d \in {Absent, DbD, JStr(<<" ">>), JInt(5)},
        m \in ExecMaxRowsValues}

\* the table the gateway runs against: a MySQL row of u1 and an Oracle row
\* of u2, as two creates leave them
ExecTable ==
    {[id |-> 1, instance_name |-> NameA, host |-> HostH, port |-> MaxPort,
      username |-> EmptyStr, password |-> EmptyStr, db_type |-> JStr(MySQL),
      status |-> JStr(Running), user_id |-> U1],
     [id |-> 2, instance_name |-> NameA, host |-> HostH, port |-> MaxPort,
      username |-> EmptyStr, password |-> EmptyStr, db_type |-> JStr(Oracle),
      status |-> JStr(Running), user_id |-> U2]}

\* whether execute_sql reaches the driver
ExecConnects(rows, user, data) ==
    LET calls == ExecReply(rows, user, data, "ok", 0).calls
    IN  \E i \in 1..Len(calls) : calls[i] = "connect"

InitExec ==
    /\ instances = ExecTable
    /\ nextId = 3
    /\ last = Idle

Execute ==
    /\ last = Idle
    /\ \E user \in Users, data \in ExecBodies :
        LET connects == ExecConnects(instances, user, data)
        IN  \E drv \in (IF connects THEN DriverOutcomes ELSE {"ok"}) :
                \E n \in (IF connects THEN 0..MaxTableRows ELSE {0}) :
                    ExecuteSql(user, data, drv, n)

NextExec == Execute \/ Respond

SpecExec == InitExec /\ [][NextExec]_vars

(***************************************************************************)
(* Claims about the gateway.                                               *)
(***************************************************************************)
Executed == last # Idle /\ last.op = "execute"

Called(c) == \E i \in 1..Len(last.calls) : last.calls[i] = c

\* the statements the claim counts: the non-empty fragments of the sql text
\* (none when the text is missing, empty or no text at all)
ClaimedStatements(v) == IF IsStr(v) THEN Statements(v.s) ELSE <<>>

\* C4 (as claimed): execute_sql answers 400 to every input that does not
\* hold exactly one statement after splitting on ';' and dropping empty
\* fragments, with no instance lookup and no connection before that answer;
\* an input with exactly one non-empty fragment executes that fragment only.
C4_SingleStatementOnly ==
    Executed =>
        /\ Len(ClaimedStatements(last.data.sql)) # 1
              => (last.status = 400 /\ ~Called("lookup") /\ ~Called("connect"))
        /\ Called("execute")
              => /\ Len(ClaimedStatements(last.data.sql)) = 1
                 /\ last.status = 200
                       => last.executed = ClaimedStatements(last.data.sql)[1]

\* what the claim calls an invalid instanceId: absent, non-numeric, zero or
\* negative
InstanceIdInvalid(v) ==
    \/ ~Has(v)
    \/ v = Null
    \/ ~PyInt(v).ok
    \/ PyInt(v).n <= 0

\* the first check that fails in the order the claim gives: instanceId, sql
\* non-empty, database non-empty, single statement
ClaimedFirstFailure(data) ==
    IF InstanceIdInvalid(data.instanceId) THEN "missing_instanceId_or_sql"
    ELSE IF ~IsStr(data.sql) \/ Strip(data.sql.s) = <<>>
         THEN "missing_instanceId_or_sql"
    ELSE IF ~IsStr(data.database) \/ Strip(data.database.s) = <<>>
         THEN "missing_database"
    ELSE IF Len(Statements(data.sql.s)) # 1 THEN "multi_statement"
    ELSE "none"

\* C5 (as claimed): an execute request whose instanceId is absent,
\* non-numeric, zero or negative is answered 400 before any instance lookup,
\* and the first failing check in the order instanceId, sql, database,
\* single statement determines the response.
C5_InstanceIdValidatedFirst ==
    Executed =>
        /\ InstanceIdInvalid(last.data.instanceId)
              => (last.status = 400 /\ ~Called("lookup"))
        /\ ClaimedFirstFailure(last.data) # "none"
              => (last.status = 400 /\ last.err = ClaimedFirstFailure(last.data))

\* the effective maxRows of the claim: the request's value when it denotes
\* a positive integer, 1000 when it is missing or invalid
EffectiveMaxRows(v) ==
    IF Has(v) /\ v.t \in {"int", "str", "float"} /\ PyInt(v).ok /\ PyInt(v).n > 0
    THEN PyInt(v).n
    ELSE DefaultMaxRows

\* a request that, but for its maxRows, runs a query on a reachable MySQL
\* instance with a working driver
RunsQueryButForMaxRows ==
    /\ Executed
    /\ last.data.instanceId = JInt(1)
    /\ last.user = U1
    /\ last.data.database = DbD
    /\ last.data.sql = JStr(SqlSelect1)

\* C6 (as claimed): on the query branch the rows returned never exceed the
\* effective maxRows, rowCount is their number and limitedTo is the
\* effective maxRows, which is the request's maxRows when valid and 1000
\* when unspecified or invalid (so a query with an invalid maxRows still
\* runs, limited to 1000).
C6_RowsLimitedToMaxRows ==
    /\ (Executed /\ last.sqlType = "query")
          => /\ last.rowCount <= EffectiveMaxRows(last.data.maxRows)
             /\ last.limitedTo = EffectiveMaxRows(last.data.maxRows)
    /\ (RunsQueryButForMaxRows /\ last.err # "driver_error")
          => (last.status = 200 /\ last.sqlType = "query")

\* the statements of the inputs that are queries: "SELECT 1" (also with a
\* trailing semicolon), "show tables", "EXPLAIN SELECT 1", "desc t",
\* "select 1", "Describe t"
QueryStatements ==
    {SqlSelect1, <<"s", "h", "o", "w", " ", "t", "a", "b", "l", "e", "s">>,
     SqlExplain, SqlDesc, <<"s", "e", "l", "e", "c", "t", " ", "1">>, SqlDescribe}

\* the statements of the inputs that are not: "UPDATE t SET x=1" and
\* "insert t select 1"
NonQueryStatements == {SqlUpdate, SqlInsert}

\* the statement a request that reached the driver hands to execute
StatementOf(r) == Statements(r.data.sql.s)[1]

\* position of the first call of that name, 0 when it was not made
CallAt(calls, c) ==
    IF \E i \in 1..Len(calls) : calls[i] = c
    THEN CHOOSE i \in 1..Len(calls) :
             calls[i] = c /\ \A j \in 1..(i - 1) : calls[j] # c
    ELSE 0

\* C13: execute_sql takes the query branch exactly when the statement's
\* lowercased, left-trimmed text starts with select, show, desc, describe or
\* explain; on the query branch commit is never called; on the non-query
\* branch commit is called exactly once, after the statement executed
\* without error and its affected-row count was read; if execution raises,
\* commit is never called.
C13_QueryBranchAndCommit ==
    (Executed /\ Called("execute"))
        => /\ StatementOf(last) \in QueryStatements \cup NonQueryStatements
           /\ last.drv = "execute_raises"
                 => /\ ~Called("fetchmany") /\ ~Called("rowcount") /\ ~Called("commit")
                    /\ last.status # 200
           /\ (last.drv # "execute_raises" /\ StatementOf(last) \in QueryStatements)
                 => /\ Called("fetchmany")
                    /\ ~Called("commit")
                    /\ last.status = 200 => last.sqlType = "query"
           /\ (last.drv # "execute_raises" /\ StatementOf(last) \in NonQueryStatements)
                 => /\ ~Called("fetchmany")
                    /\ Cardinality({i \in 1..Len(last.calls) :
                                       last.calls[i] = "commit"}) = 1
                    /\ CallAt(last.calls, "execute") < CallAt(last.calls, "rowcount")
                    /\ CallAt(last.calls, "rowcount") < CallAt(last.calls, "commit")
                    /\ last.status = 200 => last.sqlType = "non_query"

\* "UPDATE t SET x=1" went through: one commit after the execute, and the
\* rows it touched are reported
C13_Witness ==
    /\ Executed
    /\ last.data.sql = JStr(SqlUpdate)
    /\ last.status = 200
    /\ last.sqlType = "non_query"
    /\ last.affectedRows = MaxTableRows
    /\ last.calls = <<"lookup", "connect", "execute", "rowcount", "commit", "close">>

\* C14 (as claimed): a failure while connecting to or executing against the
\* target database in execute_sql is reported with HTTP status 400 and the
\* driver's message; only unexpected failures are reported with 500.
C14_DriverFailureIs400 ==
    (Executed /\ last.drv \in {"connect_raises", "execute_raises"}
       /\ Called("connect"))
        => (last.status = 400 /\ last.err = "driver_error")

(***************************************************************************)
(* Metrics Client: backend/app/services/prometheus_service.py              *)
(* A parsed sample is kept in thousandths (42.0 is 42000).                 *)
(***************************************************************************)
Milli(m) == [t |-> "milli", n |-> m, s |-> <<>>]

\* what one GET /api/v1/query can come to
Outcome(k, v) == [k |-> k, v |-> v]

NetFail     == Outcome("network_failure", Null)
HttpError   == Outcome("http_error", Null)
BadJson     == Outcome("bad_json", Null)
StatusError == Outcome("status_not_success", Null)
EmptyResult == Outcome("empty_result", Null)
NoValueKey  == Outcome("series_without_value", Null)
ShortValue  == Outcome("value_too_short", Null)
Unparsable  == Outcome("sample", JStr(<<"a", "b", "c">>))
Sample(v)   == Outcome("sample", v)

\* _query_prometheus: whether the call returns the data of the response
\* (None on a network failure, an HTTP error status, a body that is no JSON,
\* or a status other than success)
QueryReturnsData(o) ==
    o.k \notin {"network_failure", "http_error", "bad_json", "status_not_success"}

\* float(result['result'][0]['value'][1]) inside the getters' try blocks:
\* the float, or None for the IndexError, ValueError or KeyError caught
ParseSample(o) ==
    IF o.k \in {"series_without_value", "value_too_short"} THEN Null
    ELSE IF o.v.t \in {"milli", "nan"} THEN o.v
    ELSE Null

\* _query_value: the scalar of the first series, None when there is none
QueryValue(o) ==
    IF QueryReturnsData(o) /\ o.k # "empty_result" THEN ParseSample(o) ELSE Null

\* round(x, 2) on thousandths, ties to even; NaN stays NaN
Round2(v) ==
    IF v.t = "nan" THEN v
    ELSE LET q == v.n \div 10
             r == v.n % 10
         IN  Milli(10 * (IF r < 5 THEN q
                         ELSE IF r > 5 THEN q + 1
                         ELSE IF q % 2 = 0 THEN q ELSE q + 1))

\* isinstance(val, (float, int))
IsNumber(v) == v.t \in {"milli", "nan"}

\* val != val
IsNaN(v) == v.t = "nan"

\* mutant of FirstNonEmpty: the loop does not stop at the first value
FirstNonEmptyKeepsGoing(outs) ==
    LET hits == {i \in 1..Len(outs) : QueryValue(outs[i]) # Null}
    IN  IF hits = {} THEN [issued |-> Len(outs), val |-> Null, raised |-> FALSE]
        ELSE LET i == CHOOSE k \in hits : \A j \in hits : k >= j
             IN  [issued |-> Len(outs), val |-> QueryValue(outs[i]), raised |-> FALSE]

\* _first_nonempty: the queries issued, in list order, and the value
\* returned
FirstNonEmpty(outs) ==
    LET hits == {i \in 1..Len(outs) : QueryValue(outs[i]) # Null}
    IN  IF hits = {} THEN [issued |-> Len(outs), val |-> Null, raised |-> FALSE]
        ELSE LET i == CHOOSE k \in hits : \A j \in hits : k <= j
             IN  [issued |-> i, val |-> QueryValue(outs[i]), raised |-> FALSE]

\* get_cpu_usage and get_memory_usage: one query, the value rounded
SingleGauge(outs) ==
    [issued |-> 1,
     val |-> IF QueryValue(outs[1]) # Null THEN Round2(QueryValue(outs[1])) ELSE Null,
     raised |-> FALSE]

\* (used / total) * 100 on thousandths
Percent(used, total) ==
    Milli(((used * 100) \div total) * 1000
              + (((used * 100) % total) * 1000) \div total)

\* get_disk_usage: used / total of two queries; val stands for the
\* usage_percent of the dictionary returned.  The division by a total of
\* zero raises ZeroDivisionError, which the except clause does not name.
DiskUsage(outs) ==
    LET used == outs[1]
        total == outs[2]
        both == /\ QueryReturnsData(used) /\ used.k # "empty_result"
                /\ QueryReturnsData(total) /\ total.k # "empty_result"
    IN  IF ~both \/ ParseSample(used) = Null \/ ParseSample(total) = Null
        THEN [issued |-> 2, val |-> Null, raised |-> FALSE]
        ELSE IF ParseSample(total) = Milli(0)
        THEN [issued |-> 2, val |-> Null, raised |-> TRUE]
        ELSE IF IsNaN(ParseSample(used)) \/ IsNaN(ParseSample(total))
        THEN [issued |-> 2, val |-> NaN, raised |-> FALSE]
        ELSE [issued |-> 2,
              val |-> Round2(Percent(ParseSample(used).n, ParseSample(total).n)),
              raised |-> FALSE]

\* get_qps and get_tps: the fallback chain, the value rounded
RatePerSecond(outs) ==
    LET f == FirstNonEmpty(outs)
    IN  [issued |-> f.issued,
         val |-> IF IsNumber(f.val) THEN Round2(f.val) ELSE Null,
         raised |-> FALSE]

\* get_p95_latency_ms and get_disk_io_latency_ms: the candidates in order,
\* the first that is a number and not NaN, rounded
FirstNonNaN(outs) ==
    LET hits == {i \in 1..Len(outs) :
                    IsNumber(QueryValue(outs[i])) /\ ~IsNaN(QueryValue(outs[i]))}
    IN  IF hits = {} THEN [issued |-> Len(outs), val |-> Null, raised |-> FALSE]
        ELSE LET i == CHOOSE k \in hits : \A j \in hits : k <= j
             IN  [issued |-> i, val |-> Round2(QueryValue(outs[i])), raised |-> FALSE]

\* the getters, and the number of queries each has in its list
\* (first_nonempty is _first_nonempty itself, on a list of three queries)
Getters ==
    [first_nonempty |-> 3, get_cpu_usage |-> 1, get_memory_usage |-> 1, get_disk_usage |-> 2,
     get_qps |-> 4, get_tps |-> 2, get_p95_latency_ms |-> 2,
     get_disk_io_latency_ms |-> 2]

\* what getter g returns when its queries come to outs
RunGetter(g, outs) ==
    CASE g = "first_nonempty" -> FirstNonEmpty(outs)
      [] g \in {"get_cpu_usage", "get_memory_usage"} -> SingleGauge(outs)
      [] g = "get_disk_usage" -> DiskUsage(outs)
      [] g \in {"get_qps", "get_tps"} -> RatePerSecond(outs)
      [] OTHER -> FirstNonNaN(outs)

\* one call of a getter; outs[i] is what the i-th query of its list comes to
\* if it is issued
CallGetter(g, outs) ==
    /\ last = Idle
    /\ last' = [op |-> "metric", getter |-> g, outs |-> outs,
                issued |-> RunGetter(g, outs).issued,
                val |-> RunGetter(g, outs).val,
                raised |-> RunGetter(g, outs).raised]
    /\ UNCHANGED <<instances, nextId>>

\* samples: 42.0, 0, 1.236, NaN, and a text that is no number
QueryOutcomes ==
    {NetFail, HttpError, BadJson, StatusError, EmptyResult, NoValueKey,
     ShortValue, Unparsable,
     Sample(Milli(42000)), Sample(Milli(0)), Sample(Milli(1236)), Sample(NaN)}

OutcomeLists(n) == [1..n -> QueryOutcomes]

InitProm ==
    /\ instances = {}
    /\ nextId = 1
    /\ last = Idle

Metric ==
    /\ last = Idle
    /\ \E g \in DOMAIN Getters : \E outs \in OutcomeLists(Getters[g]) :
           CallGetter(g, outs)

NextProm == Metric \/ Respond

SpecProm == InitProm /\ [][NextProm]_vars

(***************************************************************************)
(* Claims about the metrics client.                                        *)
(***************************************************************************)
Measured == last # Idle /\ last.op = "metric"

\* a query yields a value when its first series carries a sample text that
\* reads as a float
Yields(o) == o.k = "sample" /\ o.v.t \in {"milli", "nan"}

\* the first query of the list that yields a value, 0 when none does
FirstYielding(outs) ==
    IF \E i \in 1..Len(outs) : Yields(outs[i])
    THEN CHOOSE i \in 1..Len(outs) :
             Yields(outs[i]) /\ \A j \in 1..(i - 1) : ~Yields(outs[j])
    ELSE 0

\* C7: a fallback chain (_first_nonempty, used by get_qps and get_tps)
\* issues its queries in list order, returns the value of the first query
\* that yields one (get_qps and get_tps round it to two decimals), issues
\* no query after that one, and returns null only when every query of the
\* list yields no data.
C7_FirstMatchWins ==
    (Measured /\ last.getter \in {"first_nonempty", "get_qps", "get_tps"})
        => LET i == FirstYielding(last.outs)
           IN  /\ ~last.raised
               /\ i = 0 => (last.val = Null /\ last.issued = Len(last.outs))
               /\ i > 0 =>
                    /\ last.issued = i
                    /\ last.val # Null
                    /\ last.getter = "first_nonempty" => last.val = last.outs[i].v
                    /\ last.getter # "first_nonempty"
                          => last.val = Round2(last.outs[i].v)

\* C7 witness: get_qps whose primary query has no data and whose secondary
\* yields 42.0 has returned 42.0 after two queries.
C7_Witness ==
    /\ Measured
    /\ last.getter = "get_qps"
    /\ last.outs[1] = EmptyResult
    /\ last.outs[2] = Sample(Milli(42000))
    /\ last.val = Milli(42000)
    /\ last.issued = 2

\* the seven getters of the client
MetricGetters ==
    {"get_cpu_usage", "get_memory_usage", "get_disk_usage", "get_qps",
     "get_tps", "get_p95_latency_ms", "get_disk_io_latency_ms"}

\* a query whose sample is a number other than NaN
YieldsNumber(o) == o.k = "sample" /\ o.v.t = "milli"

\* C8 (as claimed): every getter treats a NaN sample as no data: no getter
\* returns NaN, and a fallback chain skips a query whose sample is NaN in
\* favour of the next query.
C8_NaNIsNoData ==
    (Measured /\ last.getter \in MetricGetters)
        => /\ last.val # NaN
           /\ (/\ last.getter \in {"get_qps", "get_tps", "get_p95_latency_ms",
                                   "get_disk_io_latency_ms"}
               /\ \E i \in 1..Len(last.outs) : YieldsNumber(last.outs[i]))
                 => last.val # Null

\* C9 (as claimed): no getter lets an exception reach its caller, whatever
\* its queries come to (a network failure, a non-success status, an empty
\* result, an unparsable value, a missing series, a total of zero in
\* get_disk_usage): it returns a value or null.
C9_GettersNeverRaise ==
    (Measured /\ last.getter \in MetricGetters) => ~last.raised

(***************************************************************************)
(* Schema Introspector endpoints of backend/app/routes/instances.py and    *)
(* POST /sql/analyze of backend/app/routes/sql_analyze.py.  The services   *)
(* they call answer as the environment decides.                            *)
(***************************************************************************)
MaxSqlLen == 10000
MaxDbNameLen == 64

\* (inst.db_type or '').strip() != 'MySQL'
NotMySQL(inst) == Strip(OrElse(inst.db_type, EmptyStr).s) # MySQL

\* what database_service.list_databases may hand back, or raise
ListDbOutcomes == {"ok", "mysql_only", "no_driver", "failed", "raises"}

\* GET /instances/<id>/databases
ListInstanceDatabases(user, id, svc) ==
    /\ last = Idle
    /\ LET found == Lookup(instances, user, id)
           reply(status, err, calls) ==
               [op |-> "list_databases", user |-> user, id |-> id,
                status |-> status, err |-> err, calls |-> calls]
       IN  last' =
             IF found = {} THEN reply(404, "not_found", <<"lookup">>)
             ELSE CASE svc = "ok" -> reply(200, "none", <<"lookup", "list_databases">>)
                    [] svc = "mysql_only" ->
                           reply(400, "mysql_only", <<"lookup", "list_databases">>)
                    [] svc = "no_driver" ->
                           reply(500, "no_driver", <<"lookup", "list_databases">>)
                    [] svc = "failed" ->
                           reply(400, "failed", <<"lookup", "list_databases">>)
                    [] OTHER -> reply(500, "server_error", <<"lookup", "list_databases">>)
    /\ UNCHANGED <<instances, nextId>>

\* one row of SHOW TABLES as the driver hands it over: a mapping, a tuple,
\* or an empty row; name is its first column
TableRow(shape, name) == [shape |-> shape, name |-> name]

\* position of a one-letter table name in the alphabet
Rank(name) == CHOOSE i \in 1..Len(Lowers) : Lowers[i] = name

\* the names of the non-empty rows, as a set of positions in the result
NamedRows(rows) == {i \in 1..Len(rows) : rows[i].shape # "empty"}

\* tables.sort(): the names in rising order, duplicates kept
RECURSIVE SortNames(_, _)
SortNames(rows, left) ==
    IF left = {} THEN <<>>
    ELSE LET i == CHOOSE x \in left :
                      \A y \in left :
                          \/ Rank(rows[x].name) < Rank(rows[y].name)
                          \/ Rank(rows[x].name) = Rank(rows[y].name) /\ x <= y
         IN  <<rows[i].name>> \o SortNames(rows, left \ {i})

TablesOf(rows) == SortNames(rows, NamedRows(rows))

\* the driver calls of list_tables from pymysql.connect on
ListTablesCalls(drv) ==
    IF drv = "connect_raises" THEN <<"connect">>
    ELSE IF drv = "execute_raises" THEN <<"connect", "execute", "close">>
    ELSE <<"connect", "execute", "fetchall", "close">>

\* GET /instances/<id>/databases/<database>/tables
ListTables(user, id, drv, rows) ==
    /\ last = Idle
    /\ LET found == Lookup(instances, user, id)
           reply(status, err, calls, tables) ==
               [op |-> "list_tables", user |-> user, id |-> id,
                status |-> status, err |-> err, calls |-> calls,
                tables |-> tables]
       IN  last' =
             IF found = {} THEN reply(404, "not_found", <<"lookup">>, <<>>)
             ELSE IF NotMySQL(CHOOSE r \in found : TRUE)
             THEN reply(400, "mysql_only", <<"lookup">>, <<>>)
             ELSE IF drv \in {"connect_raises", "execute_raises", "fetch_raises"}
             THEN reply(500, "driver_error", <<"lookup">> \o ListTablesCalls(drv), <<>>)
             ELSE reply(200, "none", <<"lookup">> \o ListTablesCalls(drv),
                        TablesOf(rows))
    /\ UNCHANGED <<instances, nextId>>

\* what table_analyzer_service._get_table_metadata_only may hand back, or raise
SchemaOutcomes == {"ok", "failed", "raises"}

\* Instance.query.get(instance_id): the row of that id, whoever owns it
GetById(rows, id) == {r \in rows : r.id = id}

\* GET /instances/<id>/databases/<database>/tables/<table>/schema
GetTableSchema(user, id, svc) ==
    /\ last = Idle
    /\ LET found == GetById(instances, id)
           reply(status, err, calls) ==
               [op |-> "table_schema", user |-> user, id |-> id,
                status |-> status, err |-> err, calls |-> calls]
       IN  last' =
             IF found = {} THEN reply(404, "not_found", <<"lookup">>)
             ELSE IF NotMySQL(CHOOSE r \in found : TRUE)
             THEN reply(400, "mysql_only", <<"lookup">>)
             ELSE CASE svc = "ok" -> reply(200, "none", <<"lookup", "metadata">>)
                    [] svc = "failed" -> reply(400, "failed", <<"lookup", "metadata">>)
                    [] OTHER -> reply(500, "server_error", <<"lookup", "metadata">>)
    /\ UNCHANGED <<instances, nextId>>

\* re.match(r'^[a-zA-Z0-9_]+$', database)
IsWordChar(c) ==
    \/ \E i \in 1..Len(Upper) : Upper[i] = c \/ Lowers[i] = c
    \/ c \in Digits
    \/ c = "_"

\* the checks of analyze_sql before the instance lookup: the status and the
\* error of the first that fails, status 0 when the body passes
AnalyzeCheck(data) ==
    LET id == PyInt(OrElse(data.instanceId, JInt(0)))
        sql == StrippedOrEmpty(data.sql)
        db == StrippedOrEmpty(data.database)
        verdict(status, err) == [status |-> status, err |-> err]
    IN  IF EmptyBody(data) THEN verdict(400, "empty_body")
        ELSE IF ~id.ok THEN verdict(400, "instanceId_not_integer")
        ELSE IF id.n <= 0 THEN verdict(400, "instanceId_not_positive")
        ELSE IF ~sql.ok THEN verdict(500, "sql_not_string")
        ELSE IF sql.s = <<>> THEN verdict(400, "missing_sql")
        ELSE IF Len(sql.s) > MaxSqlLen THEN verdict(400, "sql_too_long")
        ELSE IF ~db.ok THEN verdict(500, "database_not_string")
        ELSE IF db.s = <<>> THEN verdict(400, "missing_database")
        ELSE IF Len(db.s) > MaxDbNameLen THEN verdict(400, "database_too_long")
        ELSE IF \E i \in 1..Len(db.s) : ~IsWordChar(db.s[i])
             THEN verdict(400, "database_bad_name")
        ELSE verdict(0, "none")

\* what the language model's answer comes to: an analysis, an analysis and
\* a rewritten statement, a rewritten statement alone, neither, or no client
\* at all
LlmOutcomes == {"analysis", "both", "rewritten", "nothing", "client_raises"}

\* POST /sql/analyze; ctx tells whether generate_context_summary raises
AnalyzeSql(user, data, ctx, llm) ==
    /\ last = Idle
    /\ LET check == AnalyzeCheck(data)
           reply(status, err, calls, analysis, rewritten) ==
               [op |-> "analyze", user |-> user, data |-> data,
                status |-> status, err |-> err, calls |-> calls,
                context |-> IF "context_summary" \in {calls[i] : i \in 1..Len(calls)}
                            THEN ctx ELSE "none",
                analysis |-> analysis, rewritten |-> rewritten]
       IN  last' =
             IF check.status # 0 THEN reply(check.status, check.err, <<>>, FALSE, FALSE)
             ELSE LET found == Lookup(instances, user,
                                      PyInt(OrElse(data.instanceId, JInt(0))).n)
                  IN  IF found = {}
                      THEN reply(404, "not_found", <<"lookup">>, FALSE, FALSE)
                      ELSE IF NotMySQL(CHOOSE r \in found : TRUE)
                      THEN reply(400, "mysql_only", <<"lookup">>, FALSE, FALSE)
                      ELSE IF llm = "client_raises"
                      THEN reply(500, "server_error",
                                 <<"lookup", "context_summary">>, FALSE, FALSE)
                      ELSE reply(200, "none",
                                 <<"lookup", "context_summary", "llm">>,
                                 llm \in {"analysis", "both"},
                                 llm \in {"both", "rewritten"})
    /\ UNCHANGED <<instances, nextId>>

(***************************************************************************)
(* Every instance-addressed endpoint, one request at a time, on a table    *)
(* with a MySQL row of u1 and a MySQL row of u2.                           *)
(***************************************************************************)
ScopeTable ==
    {[id |-> 1, instance_name |-> NameA, host |-> HostH, port |-> MaxPort,
      username |-> EmptyStr, password |-> EmptyStr, db_type |-> JStr(MySQL),
      status |-> JStr(Running), user_id |-> U1],
     [id |-> 2, instance_name |-> NameB, host |-> HostG, port |-> MaxPort,
      username |-> EmptyStr, password |-> EmptyStr, db_type |-> JStr(MySQL),
      status |-> JStr(Running), user_id |-> U2]}

\* bodies of POST /sql/execute and POST /sql/analyze: each id with a query,
\* a non-query, no sql, a bad database name, a maxRows that is no number
ScopeSqlBodies ==
    {ExecBody(i, q, DbD, Absent) :
        i \in {JInt(1), JInt(2), JInt(MaxId + 1), JStr(<<"2">>), JStr(<<"a", "b", "c">>)},
        q \in {JStr(SqlSelect1), JStr(SqlUpdate), Absent}}
    \cup
    {ExecBody(i, JStr(SqlSelect1), d, m) :
        i \in {JInt(1), JInt(2)},
        d \in {DbD, JStr(<<"d", "-">>)},
        m \in {Absent, JStr(<<"a", "b", "c">>)}}

\* results of SHOW TABLES: none, two mappings out of order, a tuple after an
\* empty row
TableRowLists ==
    {<<>>,
     <<TableRow("dict", "b"), TableRow("dict", "a")>>,
     <<TableRow("empty", "a"), TableRow("tuple", "c"), TableRow("dict", "c")>>}

InitScope ==
    /\ instances = ScopeTable
    /\ nextId = MaxId + 1
    /\ last = Idle

Databases ==
    /\ last = Idle
    /\ \E user \in Users, id \in PathIds :
        \E svc \in (IF Lookup(instances, user, id) # {}
                    THEN ListDbOutcomes ELSE {"ok"}) :
            ListInstanceDatabases(user, id, svc)

\* whether list_tables reaches the driver
TablesConnects(rows, user, id) ==
    /\ Lookup(rows, user, id) # {}
    /\ ~NotMySQL(CHOOSE r \in Lookup(rows, user, id) : TRUE)

Tables ==
    /\ last = Idle
    /\ \E user \in Users, id \in PathIds :
        \E drv \in (IF TablesConnects(instances, user, id)
                    THEN DriverOutcomes \ {"commit_raises"} ELSE {"ok"}) :
            \E rows \in (IF TablesConnects(instances, user, id) /\ drv = "ok"
                         THEN TableRowLists ELSE {<<>>}) :
                ListTables(user, id, drv, rows)

\* whether get_table_schema reaches the metadata service
SchemaReads(rows, id) ==
    /\ GetById(rows, id) # {}
    /\ ~NotMySQL(CHOOSE r \in GetById(rows, id) : TRUE)

Schema ==
    /\ last = Idle
    /\ \E user \in Users, id \in PathIds :
        \E svc \in (IF SchemaReads(instances, id) THEN SchemaOutcomes ELSE {"ok"}) :
            GetTableSchema(user, id, svc)

\* whether analyze_sql reaches the context summary and the language model
AnalyzeReaches(rows, user, data) ==
    /\ AnalyzeCheck(data).status = 0
    /\ LET found == Lookup(rows, user, PyInt(OrElse(data.instanceId, JInt(0))).n)
       IN  found # {} /\ ~NotMySQL(CHOOSE r \in found : TRUE)

Analyze ==
    /\ last = Idle
    /\ \E user \in Users, data \in ScopeSqlBodies :
        \E ctx \in (IF AnalyzeReaches(instances, user, data)
                    THEN {"ok", "degraded"} ELSE {"ok"}) :
            \E llm \in (IF AnalyzeReaches(instances, user, data)
                        THEN LlmOutcomes ELSE {"nothing"}) :
                AnalyzeSql(user, data, ctx, llm)

ExecuteScoped ==
    /\ last = Idle
    /\ \E user \in Users, data \in ScopeSqlBodies :
        \E drv \in (IF ExecConnects(instances, user, data)
                    THEN DriverOutcomes ELSE {"ok"}) :
            \E n \in (IF ExecConnects(instances, user, data) /\ drv = "ok"
                      THEN {0, MaxTableRows} ELSE {0}) :
                ExecuteSql(user, data, drv, n)

NextScope ==
    \/ Get \/ Update \/ Delete \/ List \/ Databases \/ Tables \/ Schema
    \/ Analyze \/ ExecuteScoped \/ Respond

SpecScope == InitScope /\ [][NextScope]_vars

(***************************************************************************)
(* Claims about the user scope.                                            *)
(***************************************************************************)
\* the endpoints that address one instance and apply the user filter
ScopedOps ==
    {"get", "update", "delete", "list_databases", "list_tables", "analyze",
     "execute"}

\* the instance id a handled request addresses: the path's id, or the
\* integer the body's instanceId denotes (0 when it denotes none)
AddressedId(r) ==
    IF r.op \in {"analyze", "execute"}
    THEN (IF Has(r.data.instanceId) /\ r.data.instanceId.t \in {"int", "str"}
             /\ PyInt(r.data.instanceId).ok
          THEN PyInt(r.data.instanceId).n ELSE 0)
    ELSE r.id

\* the request carries a user id and addresses a row of another owner
OnForeignRow(r) ==
    /\ r.user # Null
    /\ \E row \in instances : row.id = AddressedId(r) /\ row.user_id # r.user

\* the calls that reach the instance's host
HostCalls ==
    {"connect", "execute", "fetchmany", "fetchall", "commit", "list_databases",
     "metadata", "context_summary", "probe"}

ReachesHost(r) ==
    \/ r.op = "update" /\ r.probes # <<>>
    \/ r.op \in {"list_databases", "list_tables", "analyze", "execute"}
         /\ \E i \in 1..Len(r.calls) : r.calls[i] \in HostCalls

\* sql bodies that pass every check made before the instance lookup
WellFormedSqlBody(data) ==
    /\ data.instanceId \in {JInt(1), JInt(2), JStr(<<"2">>)}
    /\ data.sql \in {JStr(SqlSelect1), JStr(SqlUpdate)}
    /\ data.database = DbD
    /\ data.maxRows = Absent

\* a scoped endpoint called on another owner's row answers 404 (analyze and
\* execute: unless the body is turned down before the lookup), and neither
\* changes the table nor reaches the host
ForeignRowHidden ==
    (last = Idle /\ last' # Idle /\ last'.op \in ScopedOps /\ OnForeignRow(last'))
        => /\ instances' = instances
           /\ ~ReachesHost(last')
           /\ last'.op \notin {"analyze", "execute"} => last'.status = 404
           /\ (last'.op \in {"analyze", "execute"} /\ last'.calls # <<>>)
                 => last'.status = 404
           /\ (last'.op \in {"analyze", "execute"} /\ WellFormedSqlBody(last'.data))
                 => last'.status = 404

\* list with a user id returns exactly the rows that user owns
ListIsOwnRows ==
    (last = Idle /\ last' # Idle /\ last'.op = "list" /\ last'.user # Null)
        => last'.out = {row \in instances : row.user_id = last'.user}

\* the table-schema endpoint finds a row by its id whoever asks
SchemaIgnoresOwner ==
    (last = Idle /\ last' # Idle /\ last'.op = "table_schema")
        => ((last'.status = 404) <=> (\A row \in instances : row.id # last'.id))

CallCount(calls, c) == Cardinality({i \in 1..Len(calls) : calls[i] = c})

\* pymysql.connect returned a connection: the handler went on to use it
ConnectionOpened(calls) ==
    \E i \in 1..Len(calls) : calls[i] = "connect" /\ i < Len(calls)

\* C12: in execute_sql and list_tables every connection that was opened is
\* closed before the handler returns, on every exit path (successful query,
\* successful non-query, an exception raised by execute, fetch or commit):
\* close is the last call, made once, and no connection is closed that was
\* not opened.
C12_ConnectionAlwaysClosed ==
    (last # Idle /\ last.op \in {"execute", "list_tables"})
        => /\ CallCount(last.calls, "connect") <= 1
           /\ ConnectionOpened(last.calls)
                 => /\ last.calls[Len(last.calls)] = "close"
                    /\ CallCount(last.calls, "close") = 1
           /\ ~ConnectionOpened(last.calls) => CallCount(last.calls, "close") = 0

\* a non-query whose commit raises: answered 500 with the connection closed
C12_Witness ==
    /\ last # Idle
    /\ last.op = "execute"
    /\ last.status = 500
    /\ last.err = "driver_error"
    /\ last.calls = <<"lookup", "connect", "execute", "rowcount", "commit", "close">>

(***************************************************************************)
(* The stored records: creates and updates of one user, with names and     *)
(* hosts that carry blanks around them.                                    *)
(***************************************************************************)
\* 100 characters and a trailing blank
PaddedName == JStr([i \in 1..(MaxNameLen + 1) |-> IF i <= MaxNameLen THEN "x" ELSE " "])

\* " g"
PaddedHost == JStr(<<" ", "g">>)

StoreCreateBodies ==
    {Body(n, h, p, t, Absent, Absent, Absent) :
        n \in {NameA, PaddedName, LongName},
        h \in {HostH, PaddedHost},
        p \in {JInt(MaxPort), JStr(<<"1">>), JInt(0)},
        t \in {JStr(MySQL), JStr(MongoDB)}}

StoreUpdateBodies ==
    {Body(n, Absent, Absent, Absent, Absent, Absent, Absent) :
        n \in {NameB, PaddedName, LongName, JStr(<<" ">>)}}
    \cup
    {Body(Absent, h, p, t, Absent, Absent, Absent) :
        h \in {Absent, PaddedHost, JStr(<<" ">>)},
        p \in {Absent, JInt(MinPort), JInt(MaxPort + 1)},
        t \in {Absent, JStr(SQLServer), JStr(MongoDB)}}

CreateStored ==
    /\ last = Idle
    /\ \E data \in StoreCreateBodies :
        \E ok \in (IF CreateProbes(instances, U1, data) THEN BOOLEAN ELSE {FALSE}) :
            CreateInstance(U1, data, ok)

UpdateStored ==
    /\ last = Idle
    /\ \E id \in PathIds, data \in StoreUpdateBodies :
        \E ok \in (IF UpdateProbes(instances, U1, id, data)
                   THEN BOOLEAN ELSE {FALSE}) :
            UpdateInstance(U1, id, data, ok)

NextStore == CreateStored \/ UpdateStored \/ Respond

SpecStore == Init /\ [][NextStore]_vars

\* the fields of a stored record are what the spec's data model allows
RecordValid(r) ==
    /\ IsStr(r.instance_name)
    /\ Len(r.instance_name.s) >= 1
    /\ Len(r.instance_name.s) <= MaxNameLen
    /\ IsStr(r.host)
    /\ Len(r.host.s) >= 1
    /\ r.port \in MinPort..MaxPort
    /\ IsStr(r.db_type)
    /\ r.db_type.s \in {MySQL, PostgreSQL, Oracle, SQLServer}

\* C15 (as claimed): after any sequence of create and update requests every
\* stored record has a non-empty name of at most 100 characters, a
\* non-empty host, an integer port in [1,65535] and a type of the
\* enumeration (the values written being the ones that were validated).
C15_StoredFieldsValid == \A r \in instances : RecordValid(r)

(***************************************************************************)
(* Two requests handled at once.  Each handler of instances.py is split at *)
(* its reads and writes of the Instance table: the lookups, the probe of   *)
(* the connection validator, and the commit.  While two requests are in    *)
(* flight, last holds both with the position each has reached.             *)
(***************************************************************************)
\* a request as it arrives
Arrived(kind, user, id, data) ==
    [kind |-> kind, user |-> user, id |-> id, data |-> data, pc |-> "arrived",
     inst |-> NoRow, status |-> 0, err |-> "none"]

\* requests of u1: creates of two names, and updates of either row that
\* rename it, with and without a change of type
ConcRequests ==
    {Arrived("create", U1, 0, Body(n, HostH, JInt(MaxPort), JStr(MySQL),
                                   Absent, Absent, Absent)) : n \in GoodNames}
    \cup
    {Arrived("update", U1, id, Body(n, Absent, Absent, t, Absent, Absent, Absent)) :
        id \in 1..MaxId, n \in GoodNames, t \in {Absent, JStr(Oracle)}}

InFlight == last # Idle /\ last.op = "concurrent"

\* the request in slot i moves on; the other stays where it is
Moved(i, q) == [last EXCEPT !.reqs[i] = q]

Finished(q, status, err) == [q EXCEPT !.pc = "done", !.status = status, !.err = err]

\* two requests arrive; creates arrive only while ids are left for them
Arrive ==
    /\ last = Idle
    /\ \E a \in ConcRequests, b \in ConcRequests :
        /\ nextId + Cardinality({i \in 1..2 : <<a, b>>[i].kind = "create"}) <= MaxId + 1
        /\ last' = [op |-> "concurrent", reqs |-> <<a, b>>]
    /\ UNCHANGED <<instances, nextId>>

\* create_instance up to the uniqueness lookup
CreateCheck ==
    /\ InFlight
    /\ \E i \in 1..2 :
        LET q == last.reqs[i]
        IN  /\ q.kind = "create" /\ q.pc = "arrived"
            /\ last' = Moved(i,
                 IF CreateFieldError(q.data) # "none"
                 THEN Finished(q, 400, CreateFieldError(q.data))
                 ELSE IF NameTaken(instances, q.user, q.data.name)
                 THEN Finished(q, 400, "name_exists")
                 ELSE [q EXCEPT !.pc = "checked"])
    /\ UNCHANGED <<instances, nextId>>

\* create_instance: the connection validator answers
CreateProbed ==
    /\ InFlight
    /\ \E i \in 1..2, ok \in BOOLEAN :
        LET q == last.reqs[i]
        IN  /\ q.kind = "create" /\ q.pc = "checked"
            /\ last' = Moved(i, IF ok THEN [q EXCEPT !.pc = "probed"]
                                ELSE Finished(q, 400, "probe_failed"))
    /\ UNCHANGED <<instances, nextId>>

\* create_instance: db.session.add and commit
CreateCommit ==
    /\ InFlight
    /\ \E i \in 1..2 :
        LET q == last.reqs[i]
        IN  /\ q.kind = "create" /\ q.pc = "probed"
            /\ instances' = instances \cup {NewRow(nextId, q.user, q.data)}
            /\ nextId' = nextId + 1
            /\ last' = Moved(i, Finished(q, 201, "none"))

\* update_instance: the lookup of the row
UpdateLookup ==
    /\ InFlight
    /\ \E i \in 1..2 :
        LET q == last.reqs[i]
            found == Lookup(instances, q.user, q.id)
        IN  /\ q.kind = "update" /\ q.pc = "arrived"
            /\ last' = Moved(i,
                 IF found = {} THEN Finished(q, 404, "not_found")
                 ELSE [q EXCEPT !.pc = "loaded", !.inst = CHOOSE r \in found : TRUE])
    /\ UNCHANGED <<instances, nextId>>

\* update_instance: the field checks and the lookup of a clashing name
UpdateCheck ==
    /\ InFlight
    /\ \E i \in 1..2 :
        LET q == last.reqs[i]
        IN  /\ q.kind = "update" /\ q.pc = "loaded"
            /\ last' = Moved(i,
                 IF UpdateFieldError(q.data) # "none"
                 THEN Finished(q, 400, UpdateFieldError(q.data))
                 ELSE IF RenameClash(instances, q.user, q.inst, q.data)
                 THEN Finished(q, 400, "name_exists")
                 ELSE IF WillCheck(q.data) THEN [q EXCEPT !.pc = "checked"]
                 ELSE [q EXCEPT !.pc = "probed"])
    /\ UNCHANGED <<instances, nextId>>

\* update_instance: the connection validator answers
UpdateProbed ==
    /\ InFlight
    /\ \E i \in 1..2, ok \in BOOLEAN :
        LET q == last.reqs[i]
        IN  /\ q.kind = "update" /\ q.pc = "checked"
            /\ last' = Moved(i, IF ok THEN [q EXCEPT !.pc = "probed"]
                                ELSE Finished(q, 400, "probe_failed"))
    /\ UNCHANGED <<instances, nextId>>

\* update_instance: the fields present are assigned to the row and committed
UpdateCommit ==
    /\ InFlight
    /\ \E i \in 1..2 :
        LET q == last.reqs[i]
            row == CHOOSE r \in instances : r.id = q.id
        IN  /\ q.kind = "update" /\ q.pc = "probed"
            /\ instances' = (instances \ {row}) \cup {Patched(row, q.data)}
            /\ last' = Moved(i, Finished(q, 200, "none"))
    /\ UNCHANGED nextId

\* both responses have left
BothRespond ==
    /\ InFlight
    /\ \A i \in 1..2 : last.reqs[i].pc = "done"
    /\ last' = Idle
    /\ UNCHANGED <<instances, nextId>>

NextConc ==
    \/ Arrive \/ CreateCheck \/ CreateProbed \/ CreateCommit
    \/ UpdateLookup \/ UpdateCheck \/ UpdateProbed \/ UpdateCommit
    \/ BothRespond

SpecConc == Init /\ [][NextConc]_vars

\* C16 (as claimed): name uniqueness per user also holds when two requests
\* are handled at once: when two creates (or a create and a renaming
\* update) for the same name and the same user id interleave their lookup,
\* probe and commit, at most one of them is persisted with that name.
C16_UniqueUnderConcurrency ==
    \A r1 \in instances, r2 \in instances :
        (r1.id # r2.id /\ r1.user_id = r2.user_id)
            => r1.instance_name # r2.instance_name

====
